---- MODULE Spec2Model ----
\* A model of the backtesting engine of lifantev/cmf:
\*   simulator.py   TradingSimulator (strategy registry, replay loop, ratios)
\*   strategies.py  Action / Strategy value types
\*   candles.py     CandleSeries and the tick -> candle aggregation
\* Python indices are kept 0-based (t, index); a TLA+ sequence is read at t + 1.
EXTENDS Integers, Sequences, FiniteSets, TLC

\* ------------------------------------------------------------------ bounds
\* longest candle series and longest actions_vector of the generic inputs
MaxLen == 3
\* longest sequence of add_strategy / delete_strategy calls that is recorded
MaxOps == 3
\* most ticks handed to one aggregation
MaxTicks == 2
\* latest tick timestamp (ms since the resampling origin)
MaxTime == 5
\* largest resampling window (ms)
MaxWindow == 2
\* longest series handed directly to the ratio functions
MaxSeries == 3

\* ------------------------------------------------------------ value types
CLOSE == "close"
AVERAGE == "average"

valid_modes == {CLOSE, AVERAGE}

Action(q) == [quantity |-> q]

Strategy(n, m, av) == [name |-> n, mode |-> m, actions_vector |-> av]

\* One row of CandleSeries.data, restricted to the columns the simulator reads.
Candle(c, b, s) == [close |-> c, avg_buy_price |-> b, avg_sell_price |-> s]

Instruments == {"a", "b"}

\* an instrument name no candle series is ever given for
UnknownInstrument == "x"

\* ------------------------------------------------------------ small helpers
Min(x, y) == IF x <= y THEN x ELSE y

Max(x, y) == IF x >= y THEN x ELSE y

Abs(x) == IF x < 0 THEN -x ELSE x

SetMax(S) == CHOOSE x \in S : \A y \in S : y <= x

SetMin(S) == CHOOSE x \in S : \A y \in S : x <= y

\* d[k] of a collections.defaultdict(int): 0 for a key never written
Get(d, k) == IF k \in DOMAIN d THEN d[k] ELSE 0

RECURSIVE SetSum(_, _)
SetSum(f, S) ==
    IF S = {} THEN 0
    ELSE LET x == CHOOSE y \in S : TRUE IN f[x] + SetSum(f, S \ {x})

RECURSIVE SeqSum(_)
SeqSum(s) == IF s = <<>> THEN 0 ELSE s[1] + SeqSum(Tail(s))

SeqsUpTo(S, lo, hi) == UNION {[1..k -> S] : k \in lo..hi}

Zeros(n) == [k \in 1..n |-> 0]

\* ------------------------------------------------------------------- state
VARIABLES
    candles,            \* TradingSimulator.candles: instrument -> candle rows
    strategies,         \* TradingSimulator.strategies: name -> Strategy
    raised,             \* what the last registry call raised ("none" if nothing)
    calls,              \* the registry calls made so far, oldest first
    pc,                 \* position of _simulate_strategy
    strategy,           \* its argument
    length,             \* its locals ...
    t,
    pnl,
    max_pnl,
    traded_volume,
    max_drawdown,
    position_flips,
    avg_holding_time,
    curr_position,
    pnl_series,
    stats,              \* the TradingStats it returned
    applied,            \* the <<t, instrument>> pairs it has applied, in order
    trades,             \* MarketData.trades handed to the aggregation
    window_ms,
    frame,              \* the DataFrame _generate_candles_dataframe returned
    pnls,               \* the series handed to a ratio function
    ratio,              \* what it returned
    run_pc,             \* position of TradingSimulator.run
    pending,            \* the names run() has still to iterate over
    results             \* run()'s local `results`: name -> TradingStats

simVars == <<pc, strategy, length, t, pnl, max_pnl, traded_volume, max_drawdown,
             position_flips, avg_holding_time, curr_position, pnl_series, stats,
             applied>>

regVars == <<strategies, raised, calls>>

aggVars == <<trades, window_ms, frame>>

ratioVars == <<pnls, ratio>>

runVars == <<run_pc, pending, results>>

vars == <<candles, regVars, simVars, aggVars, ratioVars, runVars>>

\* --------------------------------------------------------- ratio functions
\* A ratio mean/std of an integer series s of length n is Sum(s) / sqrt(n*SumSq - Sum^2):
\* it is kept exactly, as the numerator and the radicand.
Finite(num, rad) == [kind |-> "finite", num |-> num, rad |-> rad]

Infinity == [kind |-> "inf", num |-> 1, rad |-> 0]

IsZero(r) == r.kind = "finite" /\ r.num = 0

\* n^2 * variance of the series: 0 exactly when np.std(pnls) = 0
Radicand(s) == Len(s) * SeqSum([k \in 1..Len(s) |-> s[k] * s[k]]) - SeqSum(s) * SeqSum(s)

_calc_sharpe_ratio(s) ==
    IF Len(s) = 0 THEN Finite(0, 1)
    ELSE IF Radicand(s) # 0 THEN Finite(SeqSum(s), Radicand(s)) ELSE Finite(0, 1)

\* _calc_sortino_ratio without the +inf return for a series with no downside
SortinoWithoutSentinel(s) ==
    IF Len(s) = 0 THEN Finite(0, 1)
    ELSE IF Radicand(s) # 0 THEN Finite(SeqSum(s), Radicand(s)) ELSE Finite(0, 1)

_calc_sortino_ratio(s) ==
    IF Len(s) = 0 THEN Finite(0, 1)
    ELSE IF {k \in 1..Len(s) : s[k] < 0} = {} THEN Infinity
    ELSE IF Radicand(s) # 0 THEN Finite(SeqSum(s), Radicand(s)) ELSE Finite(0, 1)

\* -------------------------------------------------------- the replay loop
get_value_at(instrument, index, column) == candles[instrument][index + 1][column]

\* _is_action_within_candles that skips an instrument without candles instead of raising
SkipsUnknownInstrument(instrument, tt) ==
    [raises |-> FALSE,
     ret    |-> instrument \in DOMAIN candles /\ tt < Len(candles[instrument])]

\* raises: the ValueError of an instrument without candles; ret: the returned bool
_is_action_within_candles(instrument, tt) ==
    [raises |-> instrument \notin DOMAIN candles,
     ret    |-> instrument \in DOMAIN candles /\ tt < Len(candles[instrument])]

_action_price(instrument, mode, quantity, tt) ==
    IF mode = CLOSE THEN get_value_at(instrument, tt, "close")
    ELSE IF quantity > 0 THEN get_value_at(instrument, tt, "avg_buy_price")
    ELSE IF quantity < 0 THEN get_value_at(instrument, tt, "avg_sell_price")
    ELSE 0

\* actions = strategy.actions_vector[t]
ActionsAt(tt) == strategy.actions_vector[tt + 1]

Quantity(instr, tt) == ActionsAt(tt)[instr].quantity

\* the instruments of step tt that pass the `continue` of line 105
Applied(tt) == {instr \in DOMAIN ActionsAt(tt) : _is_action_within_candles(instr, tt + 1).ret}

StepRaises(tt) == \E instr \in DOMAIN ActionsAt(tt) : _is_action_within_candles(instr, tt + 1).raises

action_price(instr, tt) == _action_price(instr, strategy.mode, Quantity(instr, tt), tt)

ltp(instr, tt) == _action_price(instr, strategy.mode, Quantity(instr, tt), tt + 1)

\* the _pnl contribution with the sell branch left out
PnlOfBuysOnly(instr, tt) ==
    IF Quantity(instr, tt) > 0 THEN (ltp(instr, tt) - action_price(instr, tt)) * Quantity(instr, tt)
    ELSE 0

\* what one applied action adds to _pnl (lines 119-130)
PnlOf(instr, tt) ==
    IF Quantity(instr, tt) > 0 THEN (ltp(instr, tt) - action_price(instr, tt)) * Quantity(instr, tt)
    ELSE IF Quantity(instr, tt) < 0 THEN (ltp(instr, tt) - action_price(instr, tt)) * Quantity(instr, tt)
    ELSE 0

\* what one applied action adds to traded_volume (line 115)
VolumeOf(instr, tt) == Abs(Quantity(instr, tt))

\* what one applied action adds to avg_holding_time[instr] (lines 112-113 and 129-130)
HoldsOf(instr, tt) ==
    (IF action_price(instr, tt) = 0 THEN 1 ELSE 0) + (IF Quantity(instr, tt) = 0 THEN 1 ELSE 0)

\* a flip counted on every trade, whatever the tracked direction
FlipsOnEveryTrade(instr, tt) == Quantity(instr, tt) # 0

\* whether an applied action changes curr_position / position_flips (lines 119-128)
Flips(instr, tt) ==
    \/ Quantity(instr, tt) > 0 /\ Get(curr_position, instr) <= 0
    \/ Quantity(instr, tt) < 0 /\ Get(curr_position, instr) >= 0

NewPosition(instr, tt) == IF Quantity(instr, tt) > 0 THEN 1 ELSE -1

\* lines 134-135
NewMaxPnl(peak, cum) == Max(peak, cum)

\* the current drawdown instead of the largest one so far
DrawdownNotKept(drawdown, peak, cum) == peak - cum

NewMaxDrawdown(drawdown, peak, cum) == Max(drawdown, peak - cum)

StepPnl(tt) == SetSum([instr \in Applied(tt) |-> PnlOf(instr, tt)], Applied(tt))

StepVolume(tt) == SetSum([instr \in Applied(tt) |-> VolumeOf(instr, tt)], Applied(tt))

Horizon(s) == Min(SetMax({Len(candles[i]) : i \in DOMAIN candles}), Len(s.actions_vector))

holding_time_percent ==
    [instr \in DOMAIN avg_holding_time |->
        [num |-> avg_holding_time[instr],
         den |-> Min(Len(candles[instr]), Len(strategy.actions_vector))]]

NoStats == [pnl |-> 0, traded_volume |-> 0, max_drawdown |-> 0,
            holding_time_percent |-> <<>>, position_flips |-> <<>>,
            sharpe_ratio |-> Finite(0, 1), sortino_ratio |-> Finite(0, 1)]

NoStrategy == Strategy("", CLOSE, <<>>)

\* the instruments of S in the order the actions dict yields them (any fixed
\* order: the instruments of one step do not read each other's state)
InOrder(S) ==
    LET In(i) == i \in S IN SelectSeq(<<"a", "b">>, In)

\* lines 102-130: the pairs one iteration of the outer loop applies
StepOrder(tt) ==
    LET order == InOrder(Applied(tt)) IN [k \in 1..Len(order) |-> <<tt, order[k]>>]

\* _simulate_strategy that starts from the pnl the previous call left
EnterKeepsPnl(s) ==
    /\ pc = "idle"
    /\ strategy' = s
    /\ pnl' = pnl
    /\ max_pnl' = 0
    /\ traded_volume' = 0
    /\ max_drawdown' = 0
    /\ position_flips' = <<>>
    /\ avg_holding_time' = <<>>
    /\ curr_position' = <<>>
    /\ length' = Horizon(s)
    /\ pnl_series' = Zeros(Horizon(s))
    /\ t' = 0
    /\ stats' = NoStats
    /\ applied' = <<>>
    /\ pc' = "loop"
    /\ UNCHANGED <<candles, regVars, aggVars, ratioVars, runVars>>

\* lines 85-97: the locals of a fresh call (every call starts from the same
\* locals, so one call per behaviour loses nothing)
simulate_enter(s) ==
    /\ pc = "idle"
    /\ strategy' = s
    /\ pnl' = 0
    /\ max_pnl' = 0
    /\ traded_volume' = 0
    /\ max_drawdown' = 0
    /\ position_flips' = <<>>
    /\ avg_holding_time' = <<>>
    /\ curr_position' = <<>>
    /\ length' = Horizon(s)
    /\ pnl_series' = Zeros(Horizon(s))
    /\ t' = 0
    /\ stats' = NoStats
    /\ applied' = <<>>
    /\ pc' = "loop"
    /\ UNCHANGED <<candles, regVars, aggVars, ratioVars, runVars>>

\* lines 99-135: one iteration of `for t in range(length - 1)`
simulate_step ==
    /\ pc = "loop"
    /\ t < length - 1
    /\ IF StepRaises(t)
       THEN /\ pc' = "raised"
            /\ UNCHANGED <<t, pnl, max_pnl, traded_volume, max_drawdown, position_flips,
                           avg_holding_time, curr_position, pnl_series, applied>>
       ELSE /\ pnl' = pnl + StepPnl(t)
            /\ pnl_series' = [pnl_series EXCEPT ![t + 1] = StepPnl(t)]
            /\ max_pnl' = NewMaxPnl(max_pnl, pnl')
            /\ max_drawdown' = NewMaxDrawdown(max_drawdown, max_pnl', pnl')
            /\ traded_volume' = traded_volume + StepVolume(t)
            /\ avg_holding_time' =
                 [instr \in DOMAIN avg_holding_time \cup {i \in Applied(t) : HoldsOf(i, t) > 0} |->
                    Get(avg_holding_time, instr)
                    + (IF instr \in Applied(t) THEN HoldsOf(instr, t) ELSE 0)]
            /\ position_flips' =
                 [instr \in DOMAIN position_flips \cup {i \in Applied(t) : Flips(i, t)} |->
                    Get(position_flips, instr)
                    + (IF instr \in Applied(t) /\ Flips(instr, t) THEN 1 ELSE 0)]
            /\ curr_position' =
                 [instr \in DOMAIN curr_position \cup Applied(t) |->
                    IF instr \in Applied(t) /\ Flips(instr, t)
                    THEN NewPosition(instr, t) ELSE Get(curr_position, instr)]
            /\ applied' = applied \o StepOrder(t)
            /\ t' = t + 1
            /\ pc' = "loop"
    /\ UNCHANGED <<strategy, length, stats>>
    /\ UNCHANGED <<candles, regVars, aggVars, ratioVars, runVars>>

\* lines 137-154: the ratios and the returned TradingStats
simulate_return ==
    /\ pc = "loop"
    /\ ~(t < length - 1)
    /\ stats' = [pnl |-> pnl, traded_volume |-> traded_volume, max_drawdown |-> max_drawdown,
                 holding_time_percent |-> holding_time_percent,
                 position_flips |-> position_flips,
                 sharpe_ratio |-> _calc_sharpe_ratio(pnl_series),
                 sortino_ratio |-> _calc_sortino_ratio(pnl_series)]
    /\ pc' = "returned"
    /\ UNCHANGED <<strategy, length, t, pnl, max_pnl, traded_volume, max_drawdown,
                   position_flips, avg_holding_time, curr_position, pnl_series, applied>>
    /\ UNCHANGED <<candles, regVars, aggVars, ratioVars, runVars>>

\* a direct call of the module-level function _calc_sortino_ratio(pnls)
calc_sortino_ratio ==
    /\ pc = "ratio_call"
    /\ ratio' = _calc_sortino_ratio(pnls)
    /\ pc' = "ratio_returned"
    /\ UNCHANGED <<strategy, length, t, pnl, max_pnl, traded_volume, max_drawdown,
                   position_flips, avg_holding_time, curr_position, pnl_series, stats,
                   applied>>
    /\ UNCHANGED <<candles, regVars, aggVars, pnls, runVars>>

\* ------------------------------------------------------------ the registry
\* add_strategy that replaces the entry of a registered name
AddOverwrites(registry, s) ==
    IF s.mode \notin valid_modes THEN [raises |-> TRUE, registry |-> registry]
    ELSE [raises |-> FALSE,
          registry |-> [n \in DOMAIN registry \cup {s.name} |->
                          IF n = s.name THEN s ELSE registry[n]]]

\* add_strategy that writes the registry before it tests the mode
AddValidatesLate(registry, s) ==
    [raises |-> s.mode \notin valid_modes,
     registry |-> IF s.name \notin DOMAIN registry
                  THEN [n \in DOMAIN registry \cup {s.name} |->
                          IF n = s.name THEN s ELSE registry[n]]
                  ELSE registry]

\* lines 46-52: what add_strategy raises and the registry it leaves
AddResult(registry, s) ==
    IF s.mode \notin valid_modes THEN [raises |-> TRUE, registry |-> registry]
    ELSE IF s.name \notin DOMAIN registry
    THEN [raises |-> FALSE,
          registry |-> [n \in DOMAIN registry \cup {s.name} |->
                          IF n = s.name THEN s ELSE registry[n]]]
    ELSE [raises |-> FALSE, registry |-> registry]

\* lines 63-64: the registry delete_strategy leaves
DeleteResult(registry, strategy_name) ==
    IF strategy_name \in DOMAIN registry
    THEN [n \in DOMAIN registry \ {strategy_name} |-> registry[n]]
    ELSE registry

AddCall(s) == [op |-> "add", name |-> s.name, strategy |-> s]

DeleteCall(n) == [op |-> "delete", name |-> n, strategy |-> NoStrategy]

add_strategy(s) ==
    /\ Len(calls) < MaxOps
    /\ strategies' = AddResult(strategies, s).registry
    /\ raised' = IF AddResult(strategies, s).raises THEN "ValueError" ELSE "none"
    /\ calls' = Append(calls, AddCall(s))
    /\ UNCHANGED <<candles, simVars, aggVars, ratioVars, runVars>>

delete_strategy(strategy_name) ==
    /\ Len(calls) < MaxOps
    /\ strategies' = DeleteResult(strategies, strategy_name)
    /\ raised' = "none"
    /\ calls' = Append(calls, DeleteCall(strategy_name))
    /\ UNCHANGED <<candles, simVars, aggVars, ratioVars, runVars>>

\* ------------------------------------------------------------------ run()
\* the keys of self.strategies in the order a dict yields them: insertion
\* order, a deleted name leaving its place
RECURSIVE InsertionOrder(_)
InsertionOrder(log) ==
    IF log = <<>> THEN <<>>
    ELSE LET before == InsertionOrder(SubSeq(log, 1, Len(log) - 1))
             call == log[Len(log)]
             Other(n) == n # call.name
             Present(n) == n = call.name
         IN IF call.op = "delete" THEN SelectSeq(before, Other)
            ELSE IF call.strategy.mode \notin valid_modes THEN before
            ELSE IF SelectSeq(before, Present) # <<>> THEN before
            ELSE Append(before, call.name)

\* line 75: results = {} and the start of the iteration over the registry
run_enter ==
    /\ run_pc = "idle"
    /\ pc = "idle"
    /\ run_pc' = "iterating"
    /\ pending' = InsertionOrder(calls)
    /\ results' = <<>>
    /\ UNCHANGED <<candles, regVars, simVars, aggVars, ratioVars>>

\* line 77: the call self._simulate_strategy(strategy) of the next name
run_call ==
    /\ run_pc = "iterating"
    /\ pending # <<>>
    /\ simulate_enter(strategies[Head(pending)])

\* line 77: results[name] = what the call returned
run_collect ==
    /\ run_pc = "iterating"
    /\ pc = "returned"
    /\ results' = [n \in DOMAIN results \cup {Head(pending)} |->
                     IF n = Head(pending) THEN stats ELSE results[n]]
    /\ pending' = Tail(pending)
    /\ pc' = "idle"
    /\ run_pc' = "iterating"
    /\ UNCHANGED <<strategy, length, t, pnl, max_pnl, traded_volume, max_drawdown,
                   position_flips, avg_holding_time, curr_position, pnl_series, stats,
                   applied>>
    /\ UNCHANGED <<candles, regVars, aggVars, ratioVars>>

\* line 77: the ValueError of a replay leaves run(), which has no handler
run_raise ==
    /\ run_pc = "iterating"
    /\ pc = "raised"
    /\ run_pc' = "raised"
    /\ UNCHANGED <<pending, results>>
    /\ UNCHANGED <<candles, regVars, simVars, aggVars, ratioVars>>

\* line 79: return results
run_return ==
    /\ run_pc = "iterating"
    /\ pc = "idle"
    /\ pending = <<>>
    /\ run_pc' = "returned"
    /\ UNCHANGED <<pending, results>>
    /\ UNCHANGED <<candles, regVars, simVars, aggVars, ratioVars>>

\* ---------------------------------------------------------- the aggregation
\* A float of the frame, kept exactly as a fraction; NaN has denominator 0.
Rat(n, d) == [num |-> n, den |-> d]

NaN == Rat(0, 0)

Tick(ts, price, amount, side) ==
    [timestamp |-> ts, price |-> price, amount |-> amount, side |-> side]

\* trades.resample(f"{window_ms}ms"): the bin of a timestamp, counted from the
\* resampling origin, and the bins from the earliest tick's to the latest one's
BinOf(ts, w) == ts \div w

FirstBin(tr, w) == BinOf(SetMin({tr[k].timestamp : k \in 1..Len(tr)}), w)

LastBin(tr, w) == BinOf(SetMax({tr[k].timestamp : k \in 1..Len(tr)}), w)

BinCount(tr, w) == LastBin(tr, w) - FirstBin(tr, w) + 1

InBin(x, w, b) == BinOf(x.timestamp, w) = b

\* the ticks of the k-th bin (k from 1), in their order
Sampled(tr, w, k) == SelectSeq(tr, LAMBDA x : InBin(x, w, FirstBin(tr, w) + k - 1))

OfSide(g, side) == SelectSeq(g, LAMBDA x : x.side = side)

Prices(g) == {g[k].price : k \in 1..Len(g)}

\* trades["price"].ohlc(): NaN in every column of a bin without ticks
ohlc(g) ==
    IF g = <<>> THEN [open |-> NaN, high |-> NaN, low |-> NaN, close |-> NaN]
    ELSE [open  |-> Rat(g[1].price, 1),
          high  |-> Rat(SetMax(Prices(g)), 1),
          low   |-> Rat(SetMin(Prices(g)), 1),
          close |-> Rat(g[Len(g)].price, 1)]

Valid(col) == {k \in 1..Len(col) : col[k] # NaN}

\* NaN cells filled with 0 instead of interpolated
fillna_zero(col) == [k \in 1..Len(col) |-> IF col[k] # NaN THEN col[k] ELSE Rat(0, 1)]

\* DataFrame.interpolate(method="linear") on one column: a NaN between two
\* values lies on the line through them, rows equally spaced; NaNs after the
\* last value repeat it, NaNs before the first stay
interpolate(col) ==
    [k \in 1..Len(col) |->
        IF col[k] # NaN THEN col[k]
        ELSE LET before == {j \in Valid(col) : j < k}
                 after  == {j \in Valid(col) : j > k}
             IN  IF before = {} THEN NaN
                 ELSE IF after = {} THEN col[SetMax(before)]
                 ELSE LET p == SetMax(before)
                          n == SetMin(after)
                      IN  Rat(col[p].num * (n - k) + col[n].num * (k - p), n - p)]

_calc_ohlc_data(tr, w, column) ==
    interpolate([k \in 1..BinCount(tr, w) |-> ohlc(Sampled(tr, w, k))[column]])

WeightedSum(g) == SeqSum([k \in 1..Len(g) |-> g[k].price * g[k].amount])

AmountSum(g) == SeqSum([k \in 1..Len(g) |-> g[k].amount])

\* np.average(price, weights=amount) over the ticks of one side, 0 without any
SideAvgPrice(g, side) ==
    IF OfSide(g, side) # <<>>
    THEN Rat(WeightedSum(OfSide(g, side)), AmountSum(OfSide(g, side)))
    ELSE Rat(0, 1)

SideVolume(g, side) ==
    IF OfSide(g, side) # <<>> THEN Rat(AmountSum(OfSide(g, side)), 1) ELSE Rat(0, 1)

_calc_buy_avg_price(g) == SideAvgPrice(g, "buy")

_calc_sell_avg_price(g) == SideAvgPrice(g, "sell")

_calc_buy_volume(g) == SideVolume(g, "buy")

_calc_sell_volume(g) == SideVolume(g, "sell")

\* pd.concat of the five results: one row per bin, labelled with the bin's start
CandlesFrame(tr, w) ==
    [k \in 1..BinCount(tr, w) |->
        [timestamp      |-> (FirstBin(tr, w) + k - 1) * w,
         open           |-> _calc_ohlc_data(tr, w, "open")[k],
         high           |-> _calc_ohlc_data(tr, w, "high")[k],
         low            |-> _calc_ohlc_data(tr, w, "low")[k],
         close          |-> _calc_ohlc_data(tr, w, "close")[k],
         avg_buy_price  |-> _calc_buy_avg_price(Sampled(tr, w, k)),
         avg_sell_price |-> _calc_sell_avg_price(Sampled(tr, w, k)),
         buy_volume     |-> _calc_buy_volume(Sampled(tr, w, k)),
         sell_volume    |-> _calc_sell_volume(Sampled(tr, w, k))]]

_generate_candles_dataframe ==
    /\ pc = "aggregate_call"
    /\ frame' = CandlesFrame(trades, window_ms)
    /\ pc' = "aggregate_returned"
    /\ UNCHANGED <<strategy, length, t, pnl, max_pnl, traded_volume, max_drawdown,
                   position_flips, avg_holding_time, curr_position, pnl_series, stats,
                   applied>>
    /\ UNCHANGED <<candles, regVars, trades, window_ms, ratioVars, runVars>>

\* ------------------------------------------------------------------ inputs
\* The candle rows of the generic inputs, as the aggregation of candles.py fills
\* them: a window without trades (an interpolated close, both averages 0), one
\* with buys only, one with sells only, one with both.
CandleKinds == {Candle(1, 0, 0), Candle(1, 1, 0), Candle(2, 0, 2), Candle(2, 2, 1)}

\* one instrument, every series of candle kinds
SingleCandles == {[i \in {"a"} |-> cs] : cs \in SeqsUpTo(CandleKinds, 1, MaxLen)}

SeriesA(n) == [k \in 1..n |-> Candle(k, k, k - 1)]

SeriesB(n) == [k \in 1..n |-> Candle(3, IF k % 2 = 0 THEN 0 ELSE 2, 3 + k)]

\* two instruments whose series differ in length
PairCandles == {[i \in Instruments |-> IF i = "a" THEN SeriesA(na) ELSE SeriesB(nb)] :
                  na \in 1..MaxLen, nb \in 1..MaxLen}

\* closes [10, 12, 11] of the buy-and-hold scenario
BuyHoldCandles == [i \in {"a"} |-> <<Candle(10, 10, 10), Candle(12, 12, 12), Candle(11, 11, 11)>>]

\* candle indices 0..3 of a monotonically rising price
RisingCandles == [i \in {"a"} |-> [k \in 1..4 |-> Candle(k, k, k)]]

CandleInputs == SingleCandles \cup PairCandles \cup {BuyHoldCandles, RisingCandles}

SingleActions == {[i \in {"a"} |-> Action(q)] : q \in {-1, 0, 1}}

SingleStrategies ==
    {Strategy("s", m, av) : m \in valid_modes, av \in SeqsUpTo(SingleActions, 0, MaxLen)}

\* the first instrument holds or buys; the second, when the step names it, holds or sells
PairActions(second) ==
    {[i \in {"a"} |-> Action(q)] : q \in {0, 1}}
    \cup {[i \in {"a", second} |-> IF i = "a" THEN Action(q) ELSE Action(r)] :
            q \in {0, 1}, r \in {-1, 0}}

PairStrategies ==
    UNION {{Strategy("p", m, av) : m \in valid_modes, av \in SeqsUpTo(PairActions(second), 0, MaxLen)} :
             second \in {"b", UnknownInstrument}}

\* buys 1 at t = 0 and holds afterwards
BuyHold(n) == [k \in 1..n |-> [i \in {"a"} |-> Action(IF k = 1 THEN 1 ELSE 0)]]

\* alternates +5 / -5 on every step
Alternating(n) == [k \in 1..n |-> [i \in {"a"} |-> Action(IF k % 2 = 1 THEN 5 ELSE -5)]]

ScenarioStrategies ==
    {Strategy("scenario", m, av) : m \in valid_modes,
        av \in {BuyHold(2), BuyHold(3), Alternating(4)}}

\* step values of the series handed directly to a ratio function
PnlValues == {-2, -1, 0, 1, 2}

PnlSeriesInputs == SeqsUpTo(PnlValues, 0, MaxSeries)

\* strategies.py line 108: the default of the parameter `quantity`
DefaultQuantity == 100

\* strategies.py lines 145-158: the value the decision at index tt looks at
\* (twice the "raw average" in average mode: halving both sides of the
\* comparison of line 160 does not change it)
DecisionValue(c, mode, instr, tt) ==
    IF mode = CLOSE THEN c[instr][tt + 1].close
    ELSE c[instr][tt + 1].avg_buy_price + c[instr][tt + 1].avg_sell_price

\* strategies.py lines 130-170: one Actions dict per t in range(max_length - 1),
\* with an entry for every instrument that has a candle at t + 1
generate_knowfuture_strategy(mode, name, c, quantity) ==
    LET max_length == SetMax({Len(c[instr]) : instr \in DOMAIN c})
        Decided(tt) == {instr \in DOMAIN c : ~(tt >= Len(c[instr]) - 1)}
    IN Strategy(name, mode,
         [k \in 1..(max_length - 1) |->
            [instr \in Decided(k - 1) |->
               Action(IF DecisionValue(c, mode, instr, k - 1) <= DecisionValue(c, mode, instr, k)
                      THEN Abs(quantity) ELSE -Abs(quantity))]])

KnowFutureStrategies(c) ==
    {generate_knowfuture_strategy(m, "knowfuture", c, DefaultQuantity) : m \in valid_modes}

StrategiesFor(c) ==
    (IF DOMAIN c = {"a"} THEN SingleStrategies \cup ScenarioStrategies ELSE PairStrategies)
    \cup KnowFutureStrategies(c)

StrategyNames == {"s1", "s2"}

\* the two valid modes and one that is not
ModeInputs == valid_modes \cup {"market"}

\* strategies told apart by their data: no action, or one buy
RegistryStrategies ==
    {Strategy(n, m, av) : n \in StrategyNames, m \in ModeInputs,
        av \in {<<>>, <<[i \in {"a"} |-> Action(1)]>>}}

TickPrices == {1, 3}

TickAmounts == {1, 2}

TickInputs ==
    {Tick(ts, p, a, sd) : ts \in 0..MaxTime, p \in TickPrices, a \in TickAmounts,
        sd \in {"buy", "sell"}}

\* non-empty tick sequences in time order
TradesInputs ==
    {tr \in SeqsUpTo(TickInputs, 1, MaxTicks) :
        \A k \in 1..(Len(tr) - 1) : tr[k].timestamp <= tr[k + 1].timestamp}

\* a sell in the first candle, then a buy and a hold
SellBuyHold == <<[i \in {"a"} |-> Action(-2)], [i \in {"a"} |-> Action(3)],
                 [i \in {"a"} |-> Action(0)]>>

\* an instrument without candles in the second, replayed, step
UnknownSecond == <<[i \in {"a"} |-> Action(1)], [i \in {UnknownInstrument} |-> Action(1)],
                   [i \in {"a"} |-> Action(0)]>>

\* the strategies registered before run(): two names, three kinds apart in
\* their results, one of which does not replay
RunStrategies ==
    {Strategy(n, CLOSE, BuyHold(3)) : n \in StrategyNames}
    \cup {Strategy(n, AVERAGE, SellBuyHold) : n \in StrategyNames}
    \cup {Strategy(n, CLOSE, UnknownSecond) : n \in StrategyNames}

\* ----------------------------------------------------------- specifications
LocalsAtEntry ==
    /\ strategy = NoStrategy
    /\ length = 0
    /\ t = 0
    /\ pnl = 0
    /\ max_pnl = 0
    /\ traded_volume = 0
    /\ max_drawdown = 0
    /\ position_flips = <<>>
    /\ avg_holding_time = <<>>
    /\ curr_position = <<>>
    /\ pnl_series = <<>>
    /\ stats = NoStats
    /\ applied = <<>>

IdleSimulation == pc = "idle" /\ LocalsAtEntry

EmptyRegistry == strategies = <<>> /\ raised = "none" /\ calls = <<>>

NoAggregation == trades = <<>> /\ window_ms = 1 /\ frame = <<>>

NoRatio == pnls = <<>> /\ ratio = Finite(0, 1)

NoRun == run_pc = "idle" /\ pending = <<>> /\ results = <<>>

\* TradingSimulator.__init__ with a non-empty candles dict, before a call of
\* _simulate_strategy
SimulatorInit ==
    /\ candles \in CandleInputs
    /\ EmptyRegistry
    /\ IdleSimulation
    /\ NoAggregation
    /\ NoRatio
    /\ NoRun

\* a caller about to hand a series to _calc_sortino_ratio
RatioInit ==
    /\ candles = BuyHoldCandles
    /\ EmptyRegistry
    /\ LocalsAtEntry
    /\ pc = "ratio_call"
    /\ NoAggregation
    /\ pnls \in PnlSeriesInputs
    /\ ratio = Finite(0, 1)
    /\ NoRun

Init == SimulatorInit \/ RatioInit

Next ==
    \/ pc = "idle" /\ \E s \in StrategiesFor(candles) : simulate_enter(s)
    \/ simulate_step
    \/ simulate_return
    \/ calc_sortino_ratio

Spec == Init /\ [][Next]_vars

\* a constructed simulator on which add_strategy and delete_strategy are called
RegistryInit ==
    /\ candles = BuyHoldCandles
    /\ EmptyRegistry
    /\ IdleSimulation
    /\ NoAggregation
    /\ NoRatio
    /\ NoRun

RegistryNext ==
    \/ \E s \in RegistryStrategies : add_strategy(s)
    \/ \E n \in StrategyNames : delete_strategy(n)

SpecRegistry == RegistryInit /\ [][RegistryNext]_vars

\* the trades of one instrument about to be aggregated
CandlesInit ==
    /\ candles = BuyHoldCandles
    /\ EmptyRegistry
    /\ LocalsAtEntry
    /\ pc = "aggregate_call"
    /\ trades \in TradesInputs
    /\ window_ms \in 1..MaxWindow
    /\ frame = <<>>
    /\ NoRatio
    /\ NoRun

CandlesNext == _generate_candles_dataframe

SpecCandles == CandlesInit /\ [][CandlesNext]_vars

\* a simulator over fixed candles whose registry is filled and then run
RunInit ==
    /\ candles = BuyHoldCandles
    /\ EmptyRegistry
    /\ IdleSimulation
    /\ NoAggregation
    /\ NoRatio
    /\ NoRun

RunNext ==
    \/ run_pc = "idle" /\ \E s \in RunStrategies : add_strategy(s)
    \/ run_pc = "idle" /\ \E n \in StrategyNames : delete_strategy(n)
    \/ run_enter
    \/ run_call
    \/ run_pc = "iterating" /\ simulate_step
    \/ run_pc = "iterating" /\ simulate_return
    \/ run_collect
    \/ run_raise
    \/ run_return

SpecRun == RunInit /\ [][RunNext]_vars

\* ------------------------------------------------------------------ claims
Replaying == pc \in {"loop", "returned"}

Sign(q) == IF q > 0 THEN 1 ELSE IF q < 0 THEN -1 ELSE 0

\* the (step, instrument) pairs of the first n steps whose action was applied:
\* the step names the instrument and the instrument has a candle at step + 1
AppliedPairs(n) ==
    {p \in (0..(n - 1)) \X DOMAIN candles :
        /\ p[2] \in DOMAIN ActionsAt(p[1])
        /\ p[1] + 1 < Len(candles[p[2]])}

TradePairs(n) == {p \in AppliedPairs(n) : Quantity(p[2], p[1]) # 0}

PriceAt(p, tt) == _action_price(p[2], strategy.mode, Quantity(p[2], p[1]), tt)

ExpectedPnl(n) ==
    SetSum([p \in TradePairs(n) |->
              (PriceAt(p, p[1] + 1) - PriceAt(p, p[1])) * Quantity(p[2], p[1])],
           TradePairs(n))

ExpectedVolume(n) ==
    SetSum([p \in TradePairs(n) |-> Abs(Quantity(p[2], p[1]))], TradePairs(n))

\* C3: pnl is the sum over the applied non-zero actions of
\* (price at t+1 - price at t) * quantity and traded_volume the sum of their
\* |quantity|, after every step and in the returned TradingStats; closes
\* [10, 12, 11] with a close-mode buy of 1 at t = 0 and holds afterwards give
\* pnl = 2, traded_volume = 1, position_flips = 1.
C3_PnlIsSumOfTrades ==
    /\ Replaying => pnl = ExpectedPnl(t) /\ traded_volume = ExpectedVolume(t)
    /\ pc = "returned" =>
         /\ t = Max(length - 1, 0)
         /\ stats.pnl = ExpectedPnl(t)
         /\ stats.traded_volume = ExpectedVolume(t)
    /\ (/\ pc = "returned"
        /\ candles = BuyHoldCandles
        /\ strategy.mode = CLOSE
        /\ strategy.actions_vector \in {BuyHold(2), BuyHold(3)})
       => /\ stats.pnl = 2
          /\ stats.traded_volume = 1
          /\ Get(stats.position_flips, "a") = 1

C3_Witness ==
    /\ pc = "returned"
    /\ candles = BuyHoldCandles
    /\ strategy = Strategy("scenario", CLOSE, BuyHold(3))
    /\ stats.pnl = 2

\* the steps before n at which instr made an applied non-zero action
TradeSteps(instr, n) == {p[1] : p \in {q \in TradePairs(n) : q[2] = instr}}

\* those whose sign differs from the one of the most recent earlier such step
\* (the first one differs from the flat state)
FlipSteps(instr, n) ==
    {tt \in TradeSteps(instr, n) :
        LET earlier == {u \in TradeSteps(instr, n) : u < tt}
        IN  \/ earlier = {}
            \/ Sign(Quantity(instr, SetMax(earlier))) # Sign(Quantity(instr, tt))}

LastDirection(instr, n) ==
    IF TradeSteps(instr, n) = {} THEN 0
    ELSE Sign(Quantity(instr, SetMax(TradeSteps(instr, n))))

\* C6: position_flips of an instrument counts the applied non-zero actions whose
\* sign differs from the most recent earlier applied non-zero action (the first
\* one counts); holds and skipped actions change neither the counter nor the
\* tracked direction; alternating +5/-5 over candle indices 0..3 gives 3.
C6_FlipsCountSignChanges ==
    /\ Replaying => \A instr \in DOMAIN candles :
         /\ Get(position_flips, instr) = Cardinality(FlipSteps(instr, t))
         /\ Get(curr_position, instr) = LastDirection(instr, t)
    /\ pc = "returned" => stats.position_flips = position_flips
    /\ (/\ pc = "returned"
        /\ candles = RisingCandles
        /\ strategy.actions_vector = Alternating(4))
       => Get(stats.position_flips, "a") = 3

C6_Witness ==
    /\ pc = "returned"
    /\ candles = RisingCandles
    /\ strategy.actions_vector = Alternating(4)
    /\ stats.position_flips = [i \in {"a"} |-> 3]

\* cumulative pnl after k steps, read off the recorded step series
Cumulative(k) == SeqSum(SubSeq(pnl_series, 1, k))

\* largest cumulative pnl of the first k steps, 0 before the first
Peak(k) == SetMax({Cumulative(j) : j \in 0..k})

DrawdownInvariant ==
    Replaying =>
        /\ max_drawdown >= 0
        /\ pnl = Cumulative(t)
        /\ max_pnl = Peak(t)
        /\ max_pnl >= pnl
        /\ max_drawdown = SetMax({0} \cup {Peak(k) - Cumulative(k) : k \in 1..t})

\* C8: after every step max_drawdown is non-negative, not smaller than after
\* the previous step, and the maximum over the steps so far of
\* (running peak - cumulative pnl); the running peak starts at 0 and is at
\* least the current cumulative pnl.
C8_DrawdownRunningMax ==
    /\ []DrawdownInvariant
    /\ [][simulate_step => max_drawdown' >= max_drawdown]_vars

C8_Witness ==
    /\ pc = "loop"
    /\ t >= 2
    /\ max_drawdown > 0
    /\ max_pnl > pnl
    /\ max_drawdown > max_pnl - pnl

AllHold ==
    \A k \in 1..Len(strategy.actions_vector) :
        \A instr \in DOMAIN strategy.actions_vector[k] :
            strategy.actions_vector[k][instr].quantity = 0

\* the instruments with at least one applied action among the first n steps
Touched(n) == {p[2] : p \in AppliedPairs(n)}

\* C4: a strategy whose every action has quantity 0 returns pnl = 0,
\* traded_volume = 0, no position flip on any instrument and
\* holding_time_percent = 1.0 for every instrument of its actions (read in the
\* code's favour: every instrument on which an action was applied).
C4_AllHoldFullHolding ==
    (pc = "returned" /\ AllHold) =>
        /\ stats.pnl = 0
        /\ stats.traded_volume = 0
        /\ \A instr \in DOMAIN candles : Get(stats.position_flips, instr) = 0
        /\ \A instr \in Touched(t) :
             /\ instr \in DOMAIN stats.holding_time_percent
             /\ stats.holding_time_percent[instr].num = stats.holding_time_percent[instr].den

\* C5: every value of holding_time_percent in the returned TradingStats is a
\* fraction in [0, 1].
C5_HoldingIsFraction ==
    pc = "returned" =>
        \A instr \in DOMAIN stats.holding_time_percent :
            /\ stats.holding_time_percent[instr].den > 0
            /\ 0 <= stats.holding_time_percent[instr].num
            /\ stats.holding_time_percent[instr].num <= stats.holding_time_percent[instr].den

NoDownside(s) == \A k \in 1..Len(s) : s[k] >= 0

\* C7 as stated: every step series without a negative value, the empty one
\* included, gives sortino_ratio = +infinity; a series with a negative step and
\* zero variance gives 0.
C7_NoDownsideIsInfinity ==
    pc = "returned" =>
        /\ NoDownside(pnl_series) => stats.sortino_ratio = Infinity
        /\ (~NoDownside(pnl_series) /\ Radicand(pnl_series) = 0) => IsZero(stats.sortino_ratio)

SortinoCases(s, r) ==
    /\ Len(s) = 0 => r = Finite(0, 1)
    /\ (Len(s) > 0 /\ NoDownside(s)) => r = Infinity
    /\ (~NoDownside(s) /\ Radicand(s) = 0) => r = Finite(0, 1)

\* C7 amended: a non-empty step series without a negative value gives
\* sortino_ratio = +infinity; the empty series (an empty actions_vector) gives
\* 0; a series with a negative step and zero variance gives 0.
C7_SortinoSentinels ==
    /\ pc = "returned" =>
         /\ SortinoCases(pnl_series, stats.sortino_ratio)
         /\ Len(pnl_series) = length
         /\ strategy.actions_vector = <<>> => stats.sortino_ratio = Finite(0, 1)
    /\ pc = "ratio_returned" => SortinoCases(pnls, ratio)

C7_Witness ==
    /\ pc = "returned"
    /\ Len(pnl_series) > 0
    /\ NoDownside(pnl_series)
    /\ \E k \in 1..Len(pnl_series) : pnl_series[k] > 0
    /\ stats.sortino_ratio = Infinity

UnknownAt(k) == \E instr \in DOMAIN strategy.actions_vector[k] : instr \notin DOMAIN candles

\* C9 as stated: no TradingStats is returned for a strategy one of whose
\* actions, at any index of actions_vector, names an instrument without candles.
C9_UnknownAnywhereFails ==
    pc = "returned" => \A k \in 1..Len(strategy.actions_vector) : ~UnknownAt(k)

\* C9 amended: the replay fails, and returns no TradingStats, exactly when an
\* action at a replayed index t < length - 1 (length = min(longest candle
\* series, len(actions_vector))) names an instrument without candles; the
\* actions at later indices are never looked at.
C9_UnknownInReplayedStepFails ==
    /\ pc = "returned" => \A k \in 1..(length - 1) : ~UnknownAt(k)
    /\ pc = "raised" =>
         /\ t < length - 1
         /\ UnknownAt(t + 1)
         /\ \A k \in 1..t : ~UnknownAt(k)
         /\ stats = NoStats
    /\ (pc = "loop" /\ t < length - 1 /\ UnknownAt(t + 1)) => ~ENABLED simulate_return

C9_Witness ==
    /\ pc = "raised"
    /\ t >= 1
    /\ UnknownAt(t + 1)

\* the calls on one name, by position in the log
LastDelete(log, n) == SetMax({0} \cup {k \in 1..Len(log) : log[k].op = "delete" /\ log[k].name = n})

ValidAddsSince(log, n) ==
    {k \in (LastDelete(log, n) + 1)..Len(log) :
        /\ log[k].op = "add"
        /\ log[k].name = n
        /\ log[k].strategy.mode \in valid_modes}

RegistryOfLog(log) ==
    [n \in {m \in StrategyNames : ValidAddsSince(log, m) # {}} |->
        log[SetMin(ValidAddsSince(log, n))].strategy]

JustCalled == Len(calls') = Len(calls) + 1

LastCall == calls'[Len(calls')]

\* C1: the registry maps each name to the first valid strategy added under it
\* since that name was last deleted; add_strategy with a name already present
\* and delete_strategy of an absent name change nothing.
C1_FirstAddWins ==
    /\ [](strategies = RegistryOfLog(calls))
    /\ [][(JustCalled /\ LastCall.op = "add" /\ LastCall.name \in DOMAIN strategies)
            => strategies' = strategies]_vars
    /\ [][(JustCalled /\ LastCall.op = "delete" /\ LastCall.name \notin DOMAIN strategies)
            => strategies' = strategies]_vars

\* a second, different strategy was added under a registered name, after a
\* delete of that name had emptied the entry once
C1_Witness ==
    /\ Len(calls) = 3
    /\ calls[1].op = "delete"
    /\ calls[2].op = "add" /\ calls[2].name = calls[1].name
    /\ calls[3].op = "add" /\ calls[3].name = calls[1].name
    /\ calls[3].strategy # calls[2].strategy
    /\ calls[3].strategy.mode \in valid_modes
    /\ calls[1].name \in DOMAIN strategies
    /\ strategies[calls[1].name] = calls[2].strategy

\* C2: add_strategy with a mode other than 'close' and 'average' raises and
\* leaves the registry as it was, whether or not the name is registered.
C2_InvalidModeLeavesRegistry ==
    [][(JustCalled /\ LastCall.op = "add" /\ LastCall.strategy.mode \notin valid_modes)
         => (raised' = "ValueError" /\ strategies' = strategies)]_vars

\* an invalid-mode add under a name that is not registered, with another
\* strategy registered
C2_Witness ==
    /\ raised = "ValueError"
    /\ Len(calls) >= 2
    /\ calls[Len(calls)].op = "add"
    /\ calls[Len(calls)].strategy.mode \notin valid_modes
    /\ calls[Len(calls)].name \notin DOMAIN strategies
    /\ strategies # <<>>

Aggregated == pc = "aggregate_returned"

\* the rows of the frame whose window holds no tick
EmptyRows == {k \in 1..Len(frame) : Sampled(trades, window_ms, k) = <<>>}

IsZeroRat(r) == r.den # 0 /\ r.num = 0

OneRowPerWindow ==
    /\ Len(frame) = BinOf(trades[Len(trades)].timestamp, window_ms)
                    - BinOf(trades[1].timestamp, window_ms) + 1
    /\ \A k \in 1..Len(frame) :
         frame[k].timestamp = (BinOf(trades[1].timestamp, window_ms) + k - 1) * window_ms
    /\ \A k \in 1..Len(trades) :
         \E j \in 1..Len(frame) :
            /\ frame[j].timestamp <= trades[k].timestamp
            /\ trades[k].timestamp < frame[j].timestamp + window_ms

SideFieldsZero(k) ==
    /\ IsZeroRat(frame[k].avg_buy_price)
    /\ IsZeroRat(frame[k].avg_sell_price)
    /\ IsZeroRat(frame[k].buy_volume)
    /\ IsZeroRat(frame[k].sell_volume)

OnLine(column, p, k, n) ==
    /\ frame[k][column].den # 0
    /\ frame[k][column].num * (n - p) * frame[p][column].den * frame[n][column].den
         = frame[k][column].den
             * (frame[p][column].num * frame[n][column].den * (n - k)
                + frame[n][column].num * frame[p][column].den * (k - p))

FreshLocals(s) ==
    [pnl |-> 0, max_pnl |-> 0, traded_volume |-> 0, max_drawdown |-> 0,
     position_flips |-> <<>>, avg_holding_time |-> <<>>, curr_position |-> <<>>,
     pnl_series |-> Zeros(Horizon(s)), step |-> 0]

\* d with d[k] = v
Put(d, k, v) == [x \in DOMAIN d \cup {k} |-> IF x = k THEN v ELSE d[x]]

\* lines 103-130: the body of the inner loop for one (instr, action) pair
ApplyPair(s, l, instr, tt) ==
    LET q == s.actions_vector[tt + 1][instr].quantity
        price == _action_price(instr, s.mode, q, tt)
        next == _action_price(instr, s.mode, q, tt + 1)
        position == Get(l.curr_position, instr)
        flip == (q > 0 /\ position <= 0) \/ (q < 0 /\ position >= 0)
        held == (IF price = 0 THEN 1 ELSE 0) + (IF q = 0 THEN 1 ELSE 0)
    IN IF ~(tt + 1 < Len(candles[instr])) THEN l
       ELSE [l EXCEPT
               !.traded_volume = @ + Abs(q),
               !.step = @ + (next - price) * q,
               !.avg_holding_time = IF held > 0 THEN Put(@, instr, Get(@, instr) + held) ELSE @,
               !.position_flips = IF flip THEN Put(@, instr, Get(@, instr) + 1) ELSE @,
               !.curr_position = IF flip THEN Put(@, instr, IF q > 0 THEN 1 ELSE -1) ELSE @]

\* line 102: the inner loop over the pairs of one step, one after the other
RECURSIVE ApplyPairs(_, _, _, _)
ApplyPairs(s, l, order, tt) ==
    IF order = <<>> THEN l
    ELSE ApplyPairs(s, ApplyPair(s, l, Head(order), tt), Tail(order), tt)

\* lines 132-135: the end of one iteration of the outer loop
CloseStep(l, tt) ==
    LET total == l.pnl + l.step
        peak == Max(l.max_pnl, total)
    IN [l EXCEPT !.pnl = total,
                 !.pnl_series = [@ EXCEPT ![tt + 1] = l.step],
                 !.max_pnl = peak,
                 !.max_drawdown = Max(@, peak - total),
                 !.step = 0]

\* lines 81-154 as one function of the strategy and the candles: what a call
\* of _simulate_strategy(s) made on its own raises or returns
RECURSIVE ReplayFrom(_, _, _)
ReplayFrom(s, l, tt) ==
    IF ~(tt < Horizon(s) - 1)
    THEN [raises |-> FALSE,
          stats |-> [pnl |-> l.pnl, traded_volume |-> l.traded_volume,
                     max_drawdown |-> l.max_drawdown,
                     holding_time_percent |->
                        [instr \in DOMAIN l.avg_holding_time |->
                           [num |-> l.avg_holding_time[instr],
                            den |-> Min(Len(candles[instr]), Len(s.actions_vector))]],
                     position_flips |-> l.position_flips,
                     sharpe_ratio |-> _calc_sharpe_ratio(l.pnl_series),
                     sortino_ratio |-> _calc_sortino_ratio(l.pnl_series)]]
    ELSE IF DOMAIN s.actions_vector[tt + 1] \ DOMAIN candles # {}
    THEN [raises |-> TRUE, stats |-> NoStats]
    ELSE ReplayFrom(s, CloseStep(ApplyPairs(s, l, InOrder(DOMAIN s.actions_vector[tt + 1]), tt), tt),
                    tt + 1)

SimulatedAlone(s) == ReplayFrom(s, FreshLocals(s), 0)

SomeRegisteredRaises == \E n \in DOMAIN strategies : SimulatedAlone(strategies[n]).raises

\* the results collected so far are those of the strategies simulated alone
ResultsAreThoseAlone ==
    \A n \in DOMAIN results :
        /\ n \in DOMAIN strategies
        /\ ~SimulatedAlone(strategies[n]).raises
        /\ results[n] = SimulatedAlone(strategies[n]).stats

RunFinished == run_pc \in {"returned", "raised"}

\* C11 as stated: for every set of registered strategies run() returns a
\* mapping whose keys are exactly the registered names and whose values are
\* the TradingStats of each strategy simulated alone, whatever else is
\* registered and in whatever order.
C11_RunAlwaysReturnsMapping ==
    RunFinished =>
        /\ run_pc = "returned"
        /\ DOMAIN results = DOMAIN strategies
        /\ ResultsAreThoseAlone

\* C11 amended: when no registered strategy fails on its own, run() returns a
\* mapping whose keys are exactly the registered names and whose values are
\* the TradingStats of each strategy simulated alone, whatever else is
\* registered and in whatever order; when some registered strategy fails on
\* its own (an instrument without candles in a replayed step), run() raises
\* that error and returns no mapping, for the other strategies either.
C11_RunReturnsAloneStatsOrRaises ==
    /\ run_pc = "iterating" => ResultsAreThoseAlone
    /\ run_pc = "returned" =>
         /\ ~SomeRegisteredRaises
         /\ DOMAIN results = DOMAIN strategies
         /\ ResultsAreThoseAlone
    /\ run_pc = "raised" =>
         /\ SomeRegisteredRaises
         /\ DOMAIN results # DOMAIN strategies

\* two strategies with different results, the second registered before the
\* first, both returned by run()
C11_Witness ==
    /\ run_pc = "returned"
    /\ InsertionOrder(calls) = <<"s2", "s1">>
    /\ results["s1"].pnl # results["s2"].pnl

\* ------------------------------------- C12: the know-the-future strategy
KnowFutureReplayed ==
    /\ Replaying
    /\ strategy \in KnowFutureStrategies(candles)

\* the price the strategy's mode trades at differs between two consecutive
\* candles of some instrument
PriceDiffers ==
    \E instr \in DOMAIN candles : \E k \in 1..(Len(candles[instr]) - 1) :
        IF strategy.mode = CLOSE
        THEN candles[instr][k].close # candles[instr][k + 1].close
        ELSE \/ candles[instr][k].avg_buy_price # candles[instr][k + 1].avg_buy_price
             \/ candles[instr][k].avg_sell_price # candles[instr][k + 1].avg_sell_price

\* C12 as stated: the strategy generate_knowfuture_strategy builds, replayed
\* in its own mode ('close' or 'average'), never loses: every step P&L is
\* >= 0, so pnl >= 0 and max_drawdown = 0, and the returned pnl is > 0 when
\* the traded price differs between two consecutive candles.
C12_KnowFutureWins ==
    KnowFutureReplayed =>
        /\ \A k \in 1..Len(pnl_series) : pnl_series[k] >= 0
        /\ pnl >= 0
        /\ max_drawdown = 0
        /\ (pc = "returned" /\ PriceDiffers) => pnl > 0

\* --------------------------- C13: every action applied in its own candle
\* the actions of the vector whose instrument has a candle at index t + 1
ExecutablePairs ==
    {p \in (0..(Len(strategy.actions_vector) - 1)) \X DOMAIN candles :
        /\ p[2] \in DOMAIN ActionsAt(p[1])
        /\ p[1] + 1 < Len(candles[p[2]])}

AppliedSet == {applied[k] : k \in 1..Len(applied)}

AppliedOnceInOrder ==
    /\ Cardinality(AppliedSet) = Len(applied)
    /\ \A j, k \in 1..Len(applied) : j < k => applied[j][1] <= applied[k][1]

\* C13 as stated: every action of the actions vector is executed within the
\* candle of the same index: the replay applies, exactly once and in
\* increasing order of t, every action at an index t of actions_vector whose
\* instrument has a candle at index t + 1, and leaves out only the actions
\* whose instrument has no candle at index t + 1.
C13_EveryActionApplied ==
    /\ Replaying => (AppliedOnceInOrder /\ AppliedSet \subseteq ExecutablePairs)
    /\ pc = "returned" => AppliedSet = ExecutablePairs

\* ------------------------------------ C14: an action whose entry price is 0
\* the applied non-zero actions of the first n steps whose entry price is 0
ZeroPricePairs(n) == {p \in TradePairs(n) : PriceAt(p, p[1]) = 0}

\* the applied non-zero actions of the first n steps that have an entry price
PricedPairs(n) == TradePairs(n) \ ZeroPricePairs(n)

PricedPnl(n) ==
    LET term == [p \in PricedPairs(n) |->
                   (PriceAt(p, p[1] + 1) - PriceAt(p, p[1])) * Quantity(p[2], p[1])]
    IN SetSum(term, PricedPairs(n))

PricedVolume(n) ==
    LET term == [p \in PricedPairs(n) |-> Abs(Quantity(p[2], p[1]))]
    IN SetSum(term, PricedPairs(n))

\* C14 as stated: an action whose entry price at index t is 0 (an
\* average-mode buy in a candle without buy trades) is not executed: it is
\* counted as a hold of its instrument and adds nothing to pnl, to
\* traded_volume or to position_flips.
C14_ZeroPriceNotExecuted ==
    Replaying =>
        /\ pnl = PricedPnl(t)
        /\ traded_volume = PricedVolume(t)
        /\ \A instr \in DOMAIN candles :
             /\ Get(avg_holding_time, instr)
                  >= Cardinality({p \in ZeroPricePairs(t) : p[2] = instr})
             /\ (\A p \in TradePairs(t) : p[2] = instr => p \in ZeroPricePairs(t))
                  => Get(position_flips, instr) = 0

====
